---- MODULE Spec2Model ----
(***************************************************************************)
(* Model of the XML repair-order pipeline of data-engineer/pipe_line:      *)
(* XMLProcessor (xml_processor.py) as driven by pipeline.py and by         *)
(* test_xml_processor.py.                                                  *)
(*                                                                         *)
(* Time is counted in ticks; TicksPerSecond ticks make one second, so a    *)
(* sub-second window and the truncation of strftime('%Y-%m-%d %H:%M:%S')   *)
(* are both visible.  Tick 0 is a midnight.  Windows are fixed frequencies *)
(* that divide a day, for which the bin edges pandas derives from the      *)
(* midnight of the first record are the multiples of the window.           *)
(* Every date_time element that is present holds a text pd.to_datetime     *)
(* parses; parsing failures of that column are outside this model.         *)
(***************************************************************************)
EXTENDS Integers, Sequences, FiniteSets, TLC

\* ------------------------------------------------------------------ bounds
MaxParts == 2
MaxSections == 2
MaxStray == 1
MaxFiles == 2
MaxRuns == 2
MaxRecords == 2
MaxTime == 4
TicksPerSecond == 2

\* ------------------------------------------------------------- basic values
\* Element.find(...) returned None: the element is not in the tree.
ABSENT == "ABSENT"
\* Python None / pandas NaN: an element without text, a missing attribute,
\* a cell of a resampled row that no record filled.
NULL == "NULL"

RequiredFields == {"order_id", "date_time", "status", "cost", "technician"}

pipeline_id == "pipeline-uuid"
load_datetime == "load-datetime"

Range(s) == {s[i] : i \in DOMAIN s}

SeqsUpTo(S, n) == UNION {[1..k -> S] : k \in 0..n}

RECURSIVE SumSeq(_)
SumSeq(s) == IF s = <<>> THEN 0 ELSE Head(s) + SumSeq(Tail(s))

RECURSIVE FlattenSeq(_)
FlattenSeq(ss) == IF ss = <<>> THEN <<>> ELSE Head(ss) \o FlattenSeq(Tail(ss))

\* ------------------------------------------------------------------- json
Tok(t, v) == [t |-> t, v |-> v]

\* json.dumps of one attribute value: None -> null, a str -> "..."
JsonValue(x) == IF x = NULL THEN Tok("null", "") ELSE Tok("str", x)

JsonPart(p) ==
    << Tok("{", ""), Tok("str", "name"), Tok(":", ""), JsonValue(p.name),
       Tok(",", ""), Tok("str", "quantity"), Tok(":", ""), JsonValue(p.quantity),
       Tok("}", "") >>

RECURSIVE JsonParts(_)
JsonParts(parts) ==
    IF parts = <<>> THEN <<>>
    ELSE JsonPart(Head(parts))
         \o (IF Tail(parts) = <<>> THEN <<>> ELSE <<Tok(",", "")>>)
         \o JsonParts(Tail(parts))

\* json.dumps(parts): the list of {'name', 'quantity'} dicts as JSON text,
\* here its token sequence.
JsonDumpsParts(parts) == <<Tok("[", "")>> \o JsonParts(parts) \o <<Tok("]", "")>>

\* json.dumps(content) of a str: the text between double quotes, with the
\* quote, the backslash and the control characters escaped and every
\* non-ASCII character written \uXXXX (ensure_ascii).
\* One character outside ASCII (U+00E9), named rather than typed.
NonAscii == "U+00E9"

JsonEscapeChar(c) ==
    CASE c = "\"" -> << "\\", "\"" >>
      [] c = "\\" -> << "\\", "\\" >>
      [] c = "\n" -> << "\\", "n" >>
      [] c = NonAscii -> << "\\", "u", "0", "0", "e", "9" >>
      [] OTHER    -> << c >>

JsonDumpsStr(s) ==
    << "\"" >> \o FlattenSeq([i \in DOMAIN s |-> JsonEscapeChar(s[i])]) \o << "\"" >>

JsonDecodeValue(tok) == IF tok.t = "null" THEN NULL ELSE tok.v

\* The objects of a JSON array of {"name": v, "quantity": v}, read from token i
\* (the token after "[" or after a separating ",").
RECURSIVE JsonParseItems(_, _)
JsonParseItems(toks, i) ==
    IF toks[i].t = "]" THEN <<>>
    ELSE LET part == [name |-> JsonDecodeValue(toks[i + 3]),
                      quantity |-> JsonDecodeValue(toks[i + 7])]
             next == IF toks[i + 9].t = "," THEN i + 10 ELSE i + 9
         IN  <<part>> \o JsonParseItems(toks, next)

\* The repair_parts cell that holds no text (None, NaN) instead of JSON text.
NoJson == << Tok("NaN", "") >>

\* json.loads(x): TypeError when x is not a str (None, NaN); else the value.
JsonLoads(x) ==
    IF x = NoJson THEN [ok |-> FALSE, val |-> <<>>]
    ELSE [ok |-> TRUE, val |-> JsonParseItems(x, 2)]

\* -------------------------------------------------------------- documents
\* An event document: its text as read from the file, and the element tree
\* ET.fromstring builds from it (wf: the text is well-formed XML).
\*   order_id, date_time, status, cost : root.find(<name>): ABSENT, or the
\*       element's text (NULL for an element without text);
\*   technician : root.find('repair_details/technician'), likewise;
\*   sections   : the repair_parts elements under repair_details in document
\*       order, each given by the number of its direct part children;
\*   stray      : the part elements that are anywhere else in the document.
PartAt(k) ==
    IF k % 2 = 1 THEN [name |-> "Air Filter", quantity |-> "1"]
    ELSE [name |-> "Oil Filter", quantity |-> NULL]

PartList(n) == [k \in 1..n |-> PartAt(k)]

Times == 0..MaxTime

TimeText(t) == ToString(t)

\* pd.to_datetime on a date_time text.
ToDatetime(text) == CHOOSE t \in Times : TimeText(t) = text

SampleText == << "<", "e", ">" >>

Docs ==
    [ wf : BOOLEAN,
      order_id : {ABSENT, NULL, "101"},
      date_time : {ABSENT, NULL, TimeText(0)},
      status : {ABSENT, NULL, "In Progress"},
      cost : {ABSENT, NULL, "50.25"},
      technician : {ABSENT, NULL, "Jane Smith"},
      sections : SeqsUpTo(0..MaxParts, MaxSections),
      stray : 0..MaxStray,
      text : {SampleText} ]

\* Number of part elements in the whole document.
PartElements(event) == SumSeq(event.sections) + event.stray

\* ----------------------------------------------------------- flatten_event
\* ET.fromstring raises ParseError on text that is not well-formed; each
\* root.find(...).text raises AttributeError when find returned None.
FlattenRaises(event) ==
    \/ ~event.wf
    \/ event.order_id = ABSENT
    \/ event.date_time = ABSENT
    \/ event.status = ABSENT
    \/ event.cost = ABSENT
    \/ event.technician = ABSENT

\* repair_parts = root.find('repair_details/repair_parts'): the first such
\* section, and the parts are its direct part children; no section, no parts.
\* As if every part element of the document were collected (findall('.//part')).
ExtractPartsEverywhere(event) == PartList(PartElements(event))

ExtractParts(event) ==
    IF event.sections = <<>> THEN <<>> ELSE PartList(event.sections[1])

\* A file name: its stem and its extension ('test1', 'xml' for test1.xml).
Name(stem, ext) == [stem |-> stem, ext |-> ext]

\* The filename cell that holds no name.
NoName == Name(NULL, NULL)

NoRecord ==
    [ pipeline_id |-> NULL, order_id |-> NULL, date_time |-> NULL, status |-> NULL,
      cost |-> NULL, technician |-> NULL, repair_parts |-> NoJson, filename |-> NoName,
      load_datetime |-> NULL ]

flatten_event(event, filename) ==
    IF FlattenRaises(event) THEN [ok |-> FALSE, record |-> NoRecord]
    ELSE [ ok |-> TRUE,
           record |-> [ pipeline_id |-> pipeline_id,
                        order_id |-> event.order_id,
                        date_time |-> event.date_time,
                        status |-> event.status,
                        cost |-> event.cost,
                        technician |-> event.technician,
                        repair_parts |-> JsonDumpsParts(ExtractParts(event)),
                        filename |-> filename,
                        load_datetime |-> load_datetime ] ]

error_record(file, content) ==
    [ pipeline_id |-> pipeline_id,
      filename |-> file,
      xml_data |-> JsonDumpsStr(content),
      load_datetime |-> load_datetime ]

\* ------------------------------------------------------------------ state
VARIABLES
    files,                  \* self.files
    combined_records,       \* self.combined_records
    combined_err_records,   \* self.combined_err_records
    eventDf,                \* self.eventDf: [set |-> FALSE] is None
    windowed_data,          \* self.windowed_data: the dict, as (key, row) in insertion order
    audit,                  \* the rows get_audit_record last produced
    runs,                   \* calls of process_xml_files so far
    lastRead,               \* how the latest read_directory ended
    last,                   \* the latest call: its name, whether it raised, what it returned
    event,                  \* flatten_event alone: its argument
    flat                    \* flatten_event alone: its outcome

vars == << files, combined_records, combined_err_records, eventDf, windowed_data,
           audit, runs, lastRead, last, event, flat >>

pipelineVars == << files, combined_records, combined_err_records, eventDf,
                   windowed_data, audit, runs, lastRead, last >>

NoFrame == [set |-> FALSE, rows |-> <<>>]
Frame(rows) == [set |-> TRUE, rows |-> rows]

\* What a call left behind: op its name, raised whether an exception left it,
\* handled the documents (or entries) it dealt with, window its argument, and
\* the value it returned, by kind.
Call(op, raised) ==
    [ op |-> op, raised |-> raised, handled |-> 0, window |-> 0, names |-> <<>>,
      good |-> <<>>, bad |-> <<>>, mapping |-> <<>>, ros |-> <<>> ]

NoCall == Call("none", FALSE)

NotCalled == [called |-> FALSE, ok |-> FALSE, record |-> NoRecord]

\* XMLProcessor.__init__
InitProcessor ==
    /\ files = <<>>
    /\ combined_records = <<>>
    /\ combined_err_records = <<>>
    /\ eventDf = NoFrame
    /\ windowed_data = <<>>
    /\ audit = <<>>
    /\ runs = 0
    /\ lastRead = "none"
    /\ last = NoCall

\* ------------------------------------------------- flatten_event on its own
InitFlatten ==
    /\ InitProcessor
    /\ event \in Docs
    /\ flat = NotCalled

FlattenCall ==
    /\ ~flat.called
    /\ LET r == flatten_event(event, Name("test1", "xml"))
       IN  flat' = [called |-> TRUE, ok |-> r.ok, record |-> r.record]
    /\ UNCHANGED << pipelineVars, event >>

NextFlatten == FlattenCall

SpecFlatten == InitFlatten /\ [][NextFlatten]_vars

\* -------------------------------------------------------------- directory
\* The files a run may find in the directory, by name, with what open/read
\* gives for each (readable: FALSE when open or read raises, as for a
\* directory named *.xml or a file the process may not read).
EventDoc(oid, t, tech, nparts, text) ==
    [ wf |-> TRUE, order_id |-> oid, date_time |-> t, status |-> "In Progress",
      cost |-> "50.25", technician |-> tech,
      sections |-> << nparts >>, stray |-> 0, text |-> text ]

Catalogue ==
    { [ name |-> Name("test1", "xml"), readable |-> TRUE,
        doc |-> EventDoc("101", TimeText(1), "Jane Smith", 1, << "<", "1", ">" >>) ],
      [ name |-> Name("notech", "xml"), readable |-> TRUE,
        doc |-> EventDoc("103", TimeText(0), ABSENT, 0, << "<", "\"", "\n", ">" >>) ],
      [ name |-> Name("broken", "xml"), readable |-> TRUE,
        doc |-> [ EventDoc("104", TimeText(0), "John Doe", 0, << "<", "\\", NonAscii >>)
                  EXCEPT !.wf = FALSE ] ],
      [ name |-> Name("locked", "xml"), readable |-> FALSE,
        doc |-> EventDoc("105", TimeText(0), "John Doe", 0, << "<", "5", ">" >>) ],
      [ name |-> Name("notes", "txt"), readable |-> TRUE,
        doc |-> EventDoc("106", TimeText(0), "John Doe", 0, << "n" >>) ] }

EntryNames == {c.name : c \in Catalogue}

Entry(name) == CHOOSE c \in Catalogue : c.name = name

\* What os.listdir may return: some of the entries, in any order.
Listings ==
    {l \in SeqsUpTo(EntryNames, MaxFiles) : \A i, j \in DOMAIN l : i # j => l[i] # l[j]}

EndsWithXml(name) == name.ext = "xml"

\* [f for f in listing if f.endswith('.xml')]
XmlFiles(listing) == SelectSeq(listing, EndsWithXml)

\* ---------------------------------------------------------- read_directory
\* os.listdir raises FileNotFoundError for a missing directory; the handler
\* logs and returns [], and the assignment to self.files never happened.
read_directory ==
    /\ \/ \E listing \in Listings :
             /\ files' = XmlFiles(listing)
             /\ lastRead' = "listed"
             /\ last' = [Call("read_directory", FALSE) EXCEPT !.names = XmlFiles(listing)]
       \/ /\ files' = files
          /\ lastRead' = "unavailable"
          /\ last' = Call("read_directory", FALSE)
    /\ UNCHANGED << combined_records, combined_err_records, eventDf, windowed_data,
                    audit, runs, event, flat >>

\* -------------------------------------------------------- process_xml_files
\* open(file_path) and f.read() stand before the try: what they raise leaves
\* the loop and the method.  up: the directory can be reached at that moment.
CanRead(file, up) == up /\ Entry(file).readable

\* The loop from file i on: the two lists as they stand when the loop ends,
\* and whether an exception ended it.
RECURSIVE ProcessFrom(_, _, _, _)
ProcessFrom(i, good, bad, up) ==
    IF i > Len(files) THEN [good |-> good, bad |-> bad, raised |-> FALSE, handled |-> i - 1]
    ELSE IF ~CanRead(files[i], up)
         THEN [good |-> good, bad |-> bad, raised |-> TRUE, handled |-> i - 1]
         ELSE LET event_data == Entry(files[i]).doc
                  r == flatten_event(event_data, files[i])
              IN  IF r.ok
                  THEN ProcessFrom(i + 1, Append(good, r.record), bad, up)
                  ELSE ProcessFrom(i + 1, good,
                                   Append(bad, error_record(files[i], event_data.text)), up)

ProcessStep(op, up) ==
    LET r == ProcessFrom(1, combined_records, combined_err_records, up)
    IN  /\ combined_records' = r.good
        /\ combined_err_records' = r.bad
        /\ eventDf' = IF r.raised THEN eventDf ELSE Frame(r.good)
        /\ last' = IF r.raised
                   THEN [Call(op, TRUE) EXCEPT !.handled = r.handled]
                   ELSE [Call(op, FALSE) EXCEPT !.handled = r.handled,
                                                !.good = r.good, !.bad = r.bad]
        /\ runs' = runs + 1

process_xml_files ==
    /\ runs < MaxRuns
    /\ \E up \in BOOLEAN : ProcessStep("process_xml_files", up)
    /\ UNCHANGED << files, windowed_data, audit, lastRead, event, flat >>

get_audit_record(nfiles, good, bad) ==
    << [ pipeline_id |-> pipeline_id,
         no_files_in_dir |-> nfiles,
         no_records_loaded_successfully |-> Len(good),
         no_records_failed_to_load |-> Len(bad),
         load_datetime |-> load_datetime ] >>

\* process_xml_files, then the three saves; save_to_sqlite catches what the
\* sink raises, and the audit rows are built after the first two saves.
load_xml_to_sqlite ==
    /\ runs < MaxRuns
    /\ \E up \in BOOLEAN :
          /\ ProcessStep("load_xml_to_sqlite", up)
          /\ audit' = IF last'.raised THEN audit
                      ELSE get_audit_record(Len(files), combined_records',
                                            combined_err_records')
    /\ UNCHANGED << files, windowed_data, lastRead, event, flat >>

\* -------------------------------------------------------- window_by_datetime
\* The window sizes tried, in ticks: half a second, a second, two seconds.
Windows == {1, TicksPerSecond, 2 * TicksPerSecond}

\* The columns left once date_time is the index.
Columns == { "pipeline_id", "order_id", "status", "cost", "technician",
             "repair_parts", "filename", "load_datetime" }

\* The missing value of a column.
Null(col) ==
    CASE col = "repair_parts" -> NoJson
      [] col = "filename" -> NoName
      [] OTHER -> NULL

EventTime(row) == ToDatetime(row.date_time)

\* As if rows with equal timestamps came out of the sort in reverse.
SortedIndexTiesReversed(rows) ==
    SortSeq([i \in DOMAIN rows |-> i],
            LAMBDA i, j : \/ EventTime(rows[i]) < EventTime(rows[j])
                          \/ EventTime(rows[i]) = EventTime(rows[j]) /\ i > j)

\* resample sorts the frame by its index when it is not already increasing,
\* with a stable sort: equal timestamps keep their input order.
SortedIndex(rows) ==
    SortSeq([i \in DOMAIN rows |-> i],
            LAMBDA i, j : \/ EventTime(rows[i]) < EventTime(rows[j])
                          \/ EventTime(rows[i]) = EventTime(rows[j]) /\ i < j)

MinTime(rows) == CHOOSE t \in {EventTime(rows[i]) : i \in DOMAIN rows} :
                    \A i \in DOMAIN rows : t <= EventTime(rows[i])

MaxTimeOf(rows) == CHOOSE t \in {EventTime(rows[i]) : i \in DOMAIN rows} :
                      \A i \in DOMAIN rows : t >= EventTime(rows[i])

\* The bins of resample(window): closed on the left, labelled by their left
\* edge, from the bin of the earliest record to the bin of the latest.
BinEdges(rows, window) ==
    LET first == MinTime(rows) \div window
        final == MaxTimeOf(rows) \div window
    IN  [k \in 1..(final - first + 1) |-> (first + k - 1) * window]

\* As if a bin held every row up to its right edge (values carried forward).
BinMembersCarried(rows, window, edge) ==
    LET order == SortedIndex(rows)
        upTo(i) == EventTime(rows[i]) < edge + window
    IN  SelectSeq(order, upTo)

\* The rows of one bin, in index order.
BinMembers(rows, window, edge) ==
    LET order == SortedIndex(rows)
        inBin(i) == edge <= EventTime(rows[i]) /\ EventTime(rows[i]) < edge + window
    IN  SelectSeq(order, inBin)

\* GroupBy.last: for each column apart, the last value of the bin that is not
\* null; the null of the column when the bin holds none.
LastOfColumn(rows, members, col) ==
    LET holding == {k \in DOMAIN members : rows[members[k]][col] # Null(col)}
    IN  IF holding = {} THEN Null(col)
        ELSE rows[members[CHOOSE k \in holding : \A h \in holding : h <= k]][col]

Resample(rows, window) ==
    LET edges == BinEdges(rows, window)
    IN  [k \in DOMAIN edges |->
            LET members == BinMembers(rows, window, edges[k])
            IN  [ timestamp |-> edges[k],
                  row |-> [col \in Columns |-> LastOfColumn(rows, members, col)] ]]

\* timestamp.strftime('%Y-%m-%d %H:%M:%S'): the timestamp cut to whole seconds.
FormatKey(timestamp) == timestamp \div TicksPerSecond

HasKey(dict, key) == \E i \in DOMAIN dict : dict[i].key = key

\* dict[key] = row: a new key goes last, a known key keeps its place.
DictSet(dict, key, row) ==
    IF HasKey(dict, key)
    THEN [i \in DOMAIN dict |-> IF dict[i].key = key THEN [key |-> key, row |-> row]
                                ELSE dict[i]]
    ELSE Append(dict, [key |-> key, row |-> row])

RECURSIVE FillDict(_, _, _)
FillDict(dict, resampled, k) ==
    IF k > Len(resampled) THEN dict
    ELSE FillDict(DictSet(dict, FormatKey(resampled[k].timestamp), resampled[k].row),
                  resampled, k + 1)

window_by_datetime ==
    \E window \in Windows :
       /\ IF ~eventDf.set
          THEN \* None has no attribute 'empty'
               /\ windowed_data' = windowed_data
               /\ last' = [Call("window_by_datetime", TRUE) EXCEPT !.window = window]
          ELSE IF eventDf.rows = <<>>
          THEN /\ windowed_data' = windowed_data
               /\ last' = [Call("window_by_datetime", FALSE) EXCEPT !.window = window]
          ELSE /\ windowed_data' = FillDict(<<>>, Resample(eventDf.rows, window), 1)
               /\ last' = [Call("window_by_datetime", FALSE)
                            EXCEPT !.window = window, !.mapping = windowed_data']
       /\ UNCHANGED << files, combined_records, combined_err_records, eventDf, audit,
                       runs, lastRead, event, flat >>

\* -------------------------------------------------------------- process_to_RO
RO(order_id, status, cost, technician, repair_parts) ==
    [ order_id |-> order_id, status |-> status, cost |-> cost,
      technician |-> technician, repair_parts |-> repair_parts ]

\* The loop over self.windowed_data.items() from entry i on.
RECURSIVE ProjectFrom(_, _)
ProjectFrom(i, ro_list) ==
    IF i > Len(windowed_data) THEN [raised |-> FALSE, ro_list |-> ro_list]
    ELSE LET row == windowed_data[i].row
             parts == JsonLoads(row.repair_parts)
         IN  IF ~parts.ok THEN [raised |-> TRUE, ro_list |-> ro_list]
             ELSE ProjectFrom(i + 1,
                              Append(ro_list, RO(row.order_id, row.status, row.cost,
                                                 row.technician, parts.val)))

process_to_RO ==
    /\ LET r == ProjectFrom(1, <<>>)
       IN  last' = IF r.raised
                   THEN [Call("process_to_RO", TRUE) EXCEPT !.handled = Len(r.ro_list)]
                   ELSE [Call("process_to_RO", FALSE)
                            EXCEPT !.handled = Len(r.ro_list), !.ros = r.ro_list]
    /\ UNCHANGED << files, combined_records, combined_err_records, eventDf,
                    windowed_data, audit, runs, lastRead, event, flat >>

\* ------------------------------------------------------------ the pipeline
Init ==
    /\ InitProcessor
    /\ event = EventDoc("101", TimeText(1), "Jane Smith", 1, SampleText)
    /\ flat = NotCalled

Next ==
    \/ read_directory
    \/ process_xml_files
    \/ load_xml_to_sqlite
    \/ window_by_datetime
    \/ process_to_RO

Spec == Init /\ [][Next]_vars

\* ---------------------------------------------- windowing a frame of one run
\* The frames one run of process_xml_files leaves in self.eventDf: up to
\* MaxRecords documents, each of them well formed with every required
\* element, under distinct file names, in any order.
WindowNames == {Name("test1", "xml"), Name("test2", "xml"), Name("test3", "xml")}

OrderIdOf(name) ==
    CASE name.stem = "test1" -> "101"
      [] name.stem = "test2" -> "102"
      [] OTHER -> "103"

PartsOf(name) ==
    CASE name.stem = "test1" -> 1
      [] name.stem = "test2" -> 2
      [] OTHER -> 0

WindowInputs ==
    { [name |-> n, doc |-> EventDoc(OrderIdOf(n), TimeText(t), tech, PartsOf(n), SampleText)] :
        n \in WindowNames, t \in Times, tech \in {NULL, "Jane Smith"} }

WindowRuns ==
    { run \in UNION {[1..k -> WindowInputs] : k \in 1..MaxRecords} :
        \A i, j \in DOMAIN run : i # j => run[i].name # run[j].name }

InitWindow ==
    \E run \in WindowRuns :
       LET rows == [i \in DOMAIN run |-> flatten_event(run[i].doc, run[i].name).record]
       IN  /\ files = [i \in DOMAIN run |-> run[i].name]
           /\ combined_records = rows
           /\ combined_err_records = <<>>
           /\ eventDf = Frame(rows)
           /\ windowed_data = <<>>
           /\ audit = <<>>
           /\ runs = 1
           /\ lastRead = "listed"
           /\ last = [Call("process_xml_files", FALSE)
                        EXCEPT !.handled = Len(rows), !.good = rows]
           /\ event = EventDoc("101", TimeText(1), "Jane Smith", 1, SampleText)
           /\ flat = NotCalled

NextWindow ==
    \/ window_by_datetime
    \/ process_to_RO

SpecWindow == InitWindow /\ [][NextWindow]_vars

\* ============================================================ properties
AnyRequiredAbsent(doc) ==
    \E f \in RequiredFields : doc[f] = ABSENT

DecodedParts(record) == JsonLoads(record.repair_parts).val

ProcessOps == {"process_xml_files", "load_xml_to_sqlite"}

Returned(ops) == last.op \in ops /\ ~last.raised

\* The records of either list that came from file f.
RecordsOf(f) ==
    Cardinality({i \in DOMAIN combined_records : combined_records[i].filename = f})
    + Cardinality({i \in DOMAIN combined_err_records : combined_err_records[i].filename = f})

\* C1 (as stated): whenever process_xml_files has returned, every listed file
\* has exactly one record in the two lists together, the two lengths add up to
\* the number of files, and the audit counts add up to the audit's file count.
CounterC1 ==
    Returned(ProcessOps) =>
        /\ \A i \in DOMAIN files : RecordsOf(files[i]) = 1
        /\ Len(combined_records) + Len(combined_err_records) = Len(files)
        /\ last.op = "load_xml_to_sqlite" =>
              audit[1].no_records_loaded_successfully + audit[1].no_records_failed_to_load
                 = audit[1].no_files_in_dir

\* C2 (as stated): process_xml_files never leaves by an exception; it handles
\* every listed file, and a file it could not turn into a FlatRecord has an
\* ErrorRecord.
CounterC2 ==
    last.op \in ProcessOps =>
        /\ ~last.raised
        /\ last.handled = Len(files)
        /\ \A i \in DOMAIN files : RecordsOf(files[i]) >= 1

\* C3 (as stated): the raw-content field of every ErrorRecord is the text of
\* its document, character for character, and the record names its file.
CounterC3 ==
    \A i \in DOMAIN combined_err_records :
        /\ combined_err_records[i].filename \in Range(files) \cup EntryNames
        /\ combined_err_records[i].xml_data = Entry(combined_err_records[i].filename).doc.text

\* C4 (as stated): on well-formed XML flatten_event fails exactly when one of
\* the five required elements is absent; without a repair_parts section it
\* succeeds with no parts; on success the number of parts is the number of
\* part elements in the document.
CounterC4 ==
    flat.called =>
        /\ event.wf => (~flat.ok <=> AnyRequiredAbsent(event))
        /\ (event.wf /\ ~AnyRequiredAbsent(event) /\ event.sections = <<>>) =>
              (flat.ok /\ DecodedParts(flat.record) = <<>>)
        /\ flat.ok => Len(DecodedParts(flat.record)) = PartElements(event)

\* C4 (amended): as above, but on success the number of parts is the number of
\* part elements that are direct children of the first repair_parts section
\* under repair_details (none when there is no such section); part elements
\* elsewhere in the document are not counted.
TheoremC4 ==
    flat.called =>
        /\ event.wf => (~flat.ok <=> AnyRequiredAbsent(event))
        /\ (event.wf /\ ~AnyRequiredAbsent(event) /\ event.sections = <<>>) =>
              (flat.ok /\ DecodedParts(flat.record) = <<>>)
        /\ flat.ok => Len(DecodedParts(flat.record))
                        = (IF event.sections = <<>> THEN 0 ELSE event.sections[1])

\* A document that parses, whose first section holds parts, and that holds
\* part elements elsewhere too.
WitnessC4 ==
    /\ flat.called /\ flat.ok
    /\ event.sections # <<>>
    /\ event.sections[1] >= 1
    /\ PartElements(event) > event.sections[1]
    /\ Len(DecodedParts(flat.record)) = event.sections[1]

\* C8 (as stated): a read_directory that finds the directory unavailable
\* returns an empty list without raising, and a process_xml_files that follows
\* handles no documents and does not raise.
CounterC8 ==
    lastRead = "unavailable" =>
        /\ last.op = "read_directory" => (~last.raised /\ last.names = <<>>)
        /\ last.op \in ProcessOps => (~last.raised /\ last.handled = 0)

\* C9 (as stated): with an empty file list process_xml_files yields two empty
\* collections; window_by_datetime on an empty successes collection returns an
\* empty mapping without raising; process_to_RO then returns an empty list.
CounterC9 ==
    /\ (last.op \in ProcessOps /\ files = <<>>) =>
          (~last.raised /\ last.good = <<>> /\ last.bad = <<>>)
    /\ (last.op = "window_by_datetime" /\ eventDf.set /\ eventDf.rows = <<>>) =>
          (~last.raised /\ last.mapping = <<>>)
    /\ (last.op = "process_to_RO" /\ eventDf.set /\ eventDf.rows = <<>>) =>
          (~last.raised /\ last.ros = <<>>)

\* --------------------------------------------------- windowing properties
\* window_by_datetime has just built self.windowed_data from self.eventDf.
AfterWindow ==
    /\ last.op = "window_by_datetime" /\ ~last.raised
    /\ eventDf.set /\ eventDf.rows # <<>>

TimeOf(i) == EventTime(eventDf.rows[i])

\* A record as a row: its columns without the index.
RowOf(record) == [col \in Columns |-> record[col]]

NullRow == [col \in Columns |-> Null(col)]

\* The bucket boundaries between the first and the last record that are
\* written as this key.
BoundariesOf(key) ==
    {b \in Times :
        /\ b % last.window = 0
        /\ b \div TicksPerSecond = key
        /\ \E i \in DOMAIN eventDf.rows : b <= TimeOf(i)
        /\ \E i \in DOMAIN eventDf.rows : TimeOf(i) < b + last.window}

LatestBoundary(key) == CHOOSE b \in BoundariesOf(key) : \A c \in BoundariesOf(key) : c <= b

\* The records of the window that starts at boundary b.
InWindow(b) == {i \in DOMAIN eventDf.rows : b <= TimeOf(i) /\ TimeOf(i) < b + last.window}

\* Of a set of records, the one with the latest event_time, and among equals
\* the one latest in input order.
LatestOf(S) ==
    CHOOSE i \in S : \A j \in S : TimeOf(j) < TimeOf(i) \/ (TimeOf(j) = TimeOf(i) /\ j <= i)

LastInInput(S) == CHOOSE i \in S : \A j \in S : j <= i

\* Every field the record holds is the field of the row.
Kept(row, record) == \A col \in Columns : record[col] # Null(col) => row[col] = record[col]

\* C5 (as stated): every key maps to one whole record of the input, the one
\* with the latest event_time among the records of that key's window.
CounterC5 ==
    AfterWindow =>
        \A k \in DOMAIN windowed_data :
            \E b \in BoundariesOf(windowed_data[k].key) :
                /\ InWindow(b) # {}
                /\ windowed_data[k].row = RowOf(eventDf.rows[LatestOf(InWindow(b))])

SourceOf(k) ==
    CHOOSE i \in DOMAIN eventDf.rows :
        eventDf.rows[i].filename = windowed_data[k].row.filename

\* C7 (as stated): process_to_RO completes on every mapping window_by_datetime
\* produced, returns one RO per entry, and each RO's repair_parts is the
\* decoded repair_parts of the source record of its bucket.
CounterC7 ==
    last.op = "process_to_RO" =>
        /\ ~last.raised
        /\ Len(last.ros) = Len(windowed_data)
        /\ \A k \in DOMAIN last.ros :
              last.ros[k].repair_parts = DecodedParts(eventDf.rows[SourceOf(k)])

\* The records whose bucket is written as this key.
GroupOf(key) == UNION {InWindow(b) : b \in BoundariesOf(key)}

Collides(key) == Cardinality({b \in BoundariesOf(key) : InWindow(b) # {}}) > 1

\* C10 (as stated): the record kept for a key is, among the records of one
\* window that share the latest event_time, the last in input order; and when
\* distinct timestamps are written as the same key, the record last in input
\* order.
CounterC10 ==
    AfterWindow =>
        \A k \in DOMAIN windowed_data :
            LET key == windowed_data[k].key
                group == GroupOf(key)
                tied == \E i, j \in group : i # j /\ i = LatestOf(group)
                                              /\ TimeOf(j) = TimeOf(i)
            IN  /\ Collides(key) =>
                      Kept(windowed_data[k].row, eventDf.rows[LastInInput(group)])
                /\ (~Collides(key) /\ tied) =>
                      Kept(windowed_data[k].row, eventDf.rows[LatestOf(group)])

\* C10 (amended): among the records of one window that share the latest
\* event_time the last in input order is kept (every field it holds is the
\* field of the row), for every input order; when distinct bucket timestamps
\* are written as the same key, the bucket with the later timestamp wins
\* whatever the input order, with a row of nulls when that bucket is empty.
TheoremC10 ==
    AfterWindow =>
        \A k \in DOMAIN windowed_data :
            LET b == LatestBoundary(windowed_data[k].key)
            IN  IF InWindow(b) = {} THEN windowed_data[k].row = NullRow
                ELSE Kept(windowed_data[k].row, eventDf.rows[LatestOf(InWindow(b))])

\* Two records of one window with the same event_time: the later in input
\* order is the one kept.
WitnessC10 ==
    /\ AfterWindow
    /\ \E k \in DOMAIN windowed_data, i, j \in DOMAIN eventDf.rows :
          /\ i < j
          /\ TimeOf(i) = TimeOf(j)
          /\ j \in InWindow(LatestBoundary(windowed_data[k].key))
          /\ windowed_data[k].row.filename = eventDf.rows[j].filename
          /\ windowed_data[k].row.order_id = eventDf.rows[j].order_id

====
